---- MODULE Spec2Model ----
(***************************************************************************)
(* The instability-index pipeline of Somatic_Instability_Analysis.ipynb:   *)
(* extract_files -> exp_peak_subset -> calc_instability_index, run on one  *)
(* sample key (sample_df).                                                 *)
(*                                                                         *)
(* Numbers.  Heights and sizes are whole numbers (GeneMapper peak heights  *)
(* are integer counts).  Every value the code rounds to 3 decimals is kept *)
(* as a whole number of thousandths (th), or is NaN: pandas gives 0/0 =    *)
(* NaN instead of raising.  With whole-number heights the comparison       *)
(* Height >= modal_height*0.01 is exactly 100*Height >= modal_height, and  *)
(* round(x, 3) is round-half-to-even of the exact quotient (the float      *)
(* computation rint(x*1000)/1000 agrees with it on the heights used here). *)
(*                                                                         *)
(* Row labels.  read_csv gives each table the labels 0, 1, 2, ...; the     *)
(* boolean-mask selection keeps the labels of the rows it keeps, and       *)
(* idxmax / .index / iterrows all speak in those labels (field idx).       *)
(* The columns Sample_Name, Area and Data_Point are carried through and    *)
(* never read by the computation; only their names are kept (columns).     *)
(***************************************************************************)
EXTENDS Integers, Sequences, FiniteSets

(* ----------------------------- bounds -------------------------------- *)
MaxRows == 3

MaxRegions == 2

MaxRepeat == 19

(* ------------------------- program constants ------------------------- *)
\* modal_height*0.01: the threshold is one hundredth of the modal height
ThresholdDivisor == 100

\* round(..., 3): three decimals, i.e. thousandths
Thousand == 1000

(* ------------------------------ inputs ------------------------------- *)
Row(s, h) == [Size |-> s, Height |-> h]

\* rows of the generic tables: one row at the modal size (never selected), and
\* rows above it with heights below the threshold, on it, between, at and
\* above the modal height of 100
GenericRows == {Row(180, 100)} \cup {Row(185, h) : h \in {0, 1, 99, 100, 101}}

RECURSIVE TablesUpTo(_)
TablesUpTo(n) ==
    IF n = 0 THEN {<<>>}
    ELSE LET T == TablesUpTo(n - 1)
         IN  T \cup {Append(t, r) : t \in {u \in T : Len(u) = n - 1}, r \in GenericRows}

RECURSIVE Repeat(_, _)
Repeat(r, k) == IF k = 0 THEN <<>> ELSE Append(Repeat(r, k - 1), r)

\* a long trace: a threshold-height peak, a row at the modal size, then k peaks
\* as tall as the modal peak
RepeatedTable(k) == <<Row(185, 1), Row(180, 100)>> \o Repeat(Row(185, 100), k)

Descriptor(p, t, mh, ms) ==
    [path |-> p, table |-> t, modal_height |-> mh, modal_size |-> ms]

ScenarioRegion ==
    Descriptor("ok", <<Row(185, 50), Row(190, 20), Row(195, 5)>>, 1000, 180)

GapRegion ==
    Descriptor("ok", <<Row(185, 99), Row(180, 100), Row(185, 100)>>, 100, 180)

EmptyRegion == Descriptor("ok", <<Row(180, 100)>>, 100, 180)

UnreadableRegion == Descriptor("unreadable", <<>>, 100, 180)

NoColumnRegion == Descriptor("nocolumn", <<>>, 100, 180)

\* the regions one position of the sample key ranges over
VariedRegions ==
    {Descriptor("ok", t, mh, 180) : t \in TablesUpTo(MaxRows), mh \in {0, 100}}
    \cup {Descriptor("ok", RepeatedTable(MaxRepeat), 100, 180)}
    \cup {ScenarioRegion, UnreadableRegion, NoColumnRegion}

\* the regions the other positions range over
OtherRegions == {GapRegion, EmptyRegion, UnreadableRegion}

\* a sample key of n rows: row k is v, the other rows are those of o
SampleKey(n, k, v, o) == [i \in 1..n |-> IF i = k THEN v ELSE o[i]]

(* ------------------------------ numbers ------------------------------ *)
Num(v) == [nan |-> FALSE, th |-> v]

NaN == [nan |-> TRUE, th |-> 0]

\* round half to even of num/den, den > 0
RoundHalfEven(num, den) ==
    LET q == num \div den
        r == num % den
    IN  IF 2 * r < den THEN q
        ELSE IF 2 * r > den THEN q + 1
        ELSE IF q % 2 = 0 THEN q ELSE q + 1

\* the quotient cut off after the third decimal instead of rounded
NormalizedHeight_Truncate(h, hs) ==
    IF hs = 0 THEN NaN ELSE Num((Thousand * h) \div hs)

\* round(Height / height_sum, 3), in thousandths; 0/0 is NaN.  Selected heights
\* lie in 0..modal_height, so height_sum = 0 only when every height is 0.
NormalizedHeight(h, hs) ==
    IF hs = 0 THEN NaN ELSE Num(RoundHalfEven(Thousand * h, hs))

\* round(normalized_Height * change_from_main, 3), in thousandths: the product of
\* a number of thousandths and a whole number is a number of thousandths already
NormalizedPeak(nh, c) ==
    IF nh.nan THEN NaN ELSE Num(RoundHalfEven(nh.th * c * Thousand, Thousand))

RECURSIVE SumSkipNaN(_)
\* Series.sum(): NaN entries are skipped, the empty sum is 0
SumSkipNaN(s) ==
    IF s = <<>> THEN 0
    ELSE (IF Head(s).nan THEN 0 ELSE Head(s).th) + SumSkipNaN(Tail(s))

RECURSIVE SumHeights(_)
SumHeights(rows) ==
    IF rows = <<>> THEN 0 ELSE Head(rows).Height + SumHeights(Tail(rows))

(* ------------------------------ frames ------------------------------- *)
BaseColumns == {"Sample_Name", "Size", "Height", "Area", "Data_Point"}

\* pd.read_csv: rows in file order, labelled 0, 1, 2, ...
ReadCsv(t) ==
    [j \in 1..Len(t) |-> [idx |-> j - 1, Size |-> t[j].Size, Height |-> t[j].Height]]

\* the mask with the size bound made inclusive
Selected_SizeInclusive(row, mh, ms) ==
    /\ ThresholdDivisor * row.Height >= mh
    /\ row.Height <= mh
    /\ row.Size >= ms

\* the selection mask of exp_peak_subset
Selected(row, mh, ms) ==
    /\ ThresholdDivisor * row.Height >= mh
    /\ row.Height <= mh
    /\ row.Size > ms

\* df[mask]: the rows the mask keeps, in order, with their labels
SelectRows(df, mh, ms) == SelectSeq(df, LAMBDA row : Selected(row, mh, ms))

\* the sum without the modal height
HeightSum_NoModal(sub, mh) == SumHeights(sub)

\* Height.sum() + modal_height[item]
HeightSum(sub, mh) == SumHeights(sub) + mh

\* Height.idxmax(): the label of the first row holding the maximum height
MaxHeightIndex(sub) ==
    LET j == CHOOSE j \in 1..Len(sub) :
                 /\ \A k \in 1..Len(sub) : sub[k].Height <= sub[j].Height
                 /\ \A k \in 1..(j - 1) : sub[k].Height < sub[j].Height
    IN  sub[j].idx

\* the label of the last row of that height instead of the first
CurrentIndex_LastMatch(sub, currentHeight) ==
    LET j == CHOOSE j \in 1..Len(sub) :
                 /\ sub[j].Height = currentHeight
                 /\ \A k \in (j + 1)..Len(sub) : sub[k].Height # currentHeight
    IN  sub[j].idx

\* df[df['Height'] == currentHeight].index.values[0]: the label of the first
\* row whose height equals currentHeight
CurrentIndex(sub, currentHeight) ==
    LET j == CHOOSE j \in 1..Len(sub) :
                 /\ sub[j].Height = currentHeight
                 /\ \A k \in 1..(j - 1) : sub[k].Height # currentHeight
    IN  sub[j].idx

\* the offset without the + 1
ChangeFromMain_NoPlusOne(currentIndex, maxHeightIndex) == currentIndex - maxHeightIndex

\* currentIndex - maxHeightIndex + 1
ChangeFromMain(currentIndex, maxHeightIndex) == currentIndex - maxHeightIndex + 1

(* ------------------------------- state ------------------------------- *)
VARIABLES
    sample_df,          \* the sample key: one descriptor per region
    pc,                 \* the loop being run, or "returned" / "raised"
    item,               \* the loop variable (1-based)
    df_list,            \* extract_files' result
    sample_subset,      \* exp_peak_subset's result = peak_subset_list
    modal_height,       \* exp_peak_subset's list of modal heights
    columns,            \* the column names of each frame of peak_subset_list
    height_sum,         \* calc_instability_index's height_sum
    normalized_Height,  \* the column, per region, per subset row
    change_from_main,   \* the column, per region, per subset row
    normalized_Peak,    \* the column, per region, per subset row
    instability_index,  \* calc_instability_index's result
    error               \* the exception that ended the run, or "none"

vars == <<sample_df, pc, item, df_list, sample_subset, modal_height, columns,
          height_sum, normalized_Height, change_from_main, normalized_Peak,
          instability_index, error>>

N == Len(sample_df)

Init ==
    /\ \E n \in 1..MaxRegions, k \in 1..MaxRegions :
           /\ k <= n
           /\ \E v \in VariedRegions, o \in [1..n -> OtherRegions] :
                  sample_df = SampleKey(n, k, v, o)
    /\ pc = "extract_files"
    /\ item = 1
    /\ df_list = <<>>
    /\ sample_subset = <<>>
    /\ modal_height = <<>>
    /\ columns = <<>>
    /\ height_sum = <<>>
    /\ normalized_Height = <<>>
    /\ change_from_main = <<>>
    /\ normalized_Peak = <<>>
    /\ instability_index = <<>>
    /\ error = "none"

\* the next loop's first iteration once this loop has run its last
Advance(next) ==
    IF item = N THEN pc' = next /\ item' = 1
    ELSE pc' = pc /\ item' = item + 1

Raise(e) ==
    /\ pc' = "raised"
    /\ error' = e
    /\ item' = item

(* ---------------------------- extract_files -------------------------- *)
\* one iteration of the loop: read the table, keep and rename the five columns
ExtractItem ==
    /\ pc = "extract_files"
    /\ sample_df[item].path = "ok"
    /\ df_list' = Append(df_list, ReadCsv(sample_df[item].table))
    /\ Advance("exp_peak_subset")
    /\ UNCHANGED <<sample_df, sample_subset, modal_height, columns, height_sum,
                   normalized_Height, change_from_main, normalized_Peak,
                   instability_index, error>>

\* pd.read_csv raises on a path it cannot read
ExtractUnreadable ==
    /\ pc = "extract_files"
    /\ sample_df[item].path = "unreadable"
    /\ Raise("FileNotFoundError")
    /\ UNCHANGED <<sample_df, df_list, sample_subset, modal_height, columns,
                   height_sum, normalized_Height, change_from_main,
                   normalized_Peak, instability_index>>

\* df[[...five names...]] raises when a column is absent
ExtractNoColumn ==
    /\ pc = "extract_files"
    /\ sample_df[item].path = "nocolumn"
    /\ Raise("KeyError")
    /\ UNCHANGED <<sample_df, df_list, sample_subset, modal_height, columns,
                   height_sum, normalized_Height, change_from_main,
                   normalized_Peak, instability_index>>

(* --------------------------- exp_peak_subset ------------------------- *)
\* one iteration: the rows of extracted_files[item] the mask keeps
SubsetItem ==
    /\ pc = "exp_peak_subset"
    /\ modal_height' = [i \in 1..N |-> sample_df[i].modal_height]
    /\ sample_subset' = Append(sample_subset,
           SelectRows(df_list[item], sample_df[item].modal_height,
                      sample_df[item].modal_size))
    /\ columns' = Append(columns, BaseColumns)
    /\ Advance("height_sum")
    /\ UNCHANGED <<sample_df, df_list, height_sum, normalized_Height,
                   change_from_main, normalized_Peak, instability_index, error>>

(* ------------------------ calc_instability_index --------------------- *)
\* first loop: height_sum and the normalized_Height column
HeightSumItem ==
    /\ pc = "height_sum"
    /\ LET hs == HeightSum(sample_subset[item], modal_height[item])
       IN  /\ height_sum' = Append(height_sum, hs)
           /\ normalized_Height' = Append(normalized_Height,
                  [j \in 1..Len(sample_subset[item]) |->
                      NormalizedHeight(sample_subset[item][j].Height, hs)])
    /\ columns' = [columns EXCEPT ![item] = @ \cup {"normalized_Height"}]
    /\ Advance("change_from_main")
    /\ UNCHANGED <<sample_df, df_list, sample_subset, modal_height,
                   change_from_main, normalized_Peak, instability_index, error>>

\* second loop, one region: every row's change_from_main; the column comes to
\* exist with the first .at[...] assignment, so never for a frame without rows
ChangeFromMainItem ==
    /\ pc = "change_from_main"
    /\ LET sub == sample_subset[item]
       IN  /\ change_from_main' = Append(change_from_main,
                  [j \in 1..Len(sub) |->
                      ChangeFromMain(CurrentIndex(sub, sub[j].Height),
                                     MaxHeightIndex(sub))])
           /\ columns' = [columns EXCEPT ![item] =
                  IF sub = <<>> THEN @ ELSE @ \cup {"change_from_main"}]
    /\ Advance("normalized_Peak")
    /\ UNCHANGED <<sample_df, df_list, sample_subset, modal_height, height_sum,
                   normalized_Height, normalized_Peak, instability_index, error>>

\* third loop, one region: every row's normalized_Peak
NormalizedPeakItem ==
    /\ pc = "normalized_Peak"
    /\ LET sub == sample_subset[item]
       IN  /\ normalized_Peak' = Append(normalized_Peak,
                  [j \in 1..Len(sub) |->
                      NormalizedPeak(normalized_Height[item][j],
                                     change_from_main[item][j])])
           /\ columns' = [columns EXCEPT ![item] =
                  IF sub = <<>> THEN @ ELSE @ \cup {"normalized_Peak"}]
    /\ Advance("instability_index")
    /\ UNCHANGED <<sample_df, df_list, sample_subset, modal_height, height_sum,
                   normalized_Height, change_from_main, instability_index, error>>

\* fourth loop, one region: round(normalized_Peak.sum(), 3)
InstabilityItem ==
    /\ pc = "instability_index"
    /\ "normalized_Peak" \in columns[item]
    /\ instability_index' = Append(instability_index,
           Num(RoundHalfEven(SumSkipNaN(normalized_Peak[item]) * Thousand, Thousand)))
    /\ Advance("returned")
    /\ UNCHANGED <<sample_df, df_list, sample_subset, modal_height, columns,
                   height_sum, normalized_Height, change_from_main,
                   normalized_Peak, error>>

\* df.normalized_Peak on a frame that has no such column
InstabilityNoColumn ==
    /\ pc = "instability_index"
    /\ "normalized_Peak" \notin columns[item]
    /\ Raise("AttributeError")
    /\ UNCHANGED <<sample_df, df_list, sample_subset, modal_height, columns,
                   height_sum, normalized_Height, change_from_main,
                   normalized_Peak, instability_index>>

Next ==
    \/ ExtractItem
    \/ ExtractUnreadable
    \/ ExtractNoColumn
    \/ SubsetItem
    \/ HeightSumItem
    \/ ChangeFromMainItem
    \/ NormalizedPeakItem
    \/ InstabilityItem
    \/ InstabilityNoColumn

Spec == Init /\ [][Next]_vars

(* ============================== claims =============================== *)
Terminal == pc \in {"returned", "raised"}

\* the selection predicate as the specification words it, on a row of the
\* region's original table
Qualifies(d, l) ==
    /\ 100 * d.table[l].Height >= d.modal_height
    /\ d.table[l].Height <= d.modal_height
    /\ d.table[l].Size > d.modal_size

\* the least element of a non-empty set of integers
Least(S) == CHOOSE x \in S : \A y \in S : x <= y

(* C1: for every region, the subset exp_peak_subset returns is exactly the     *)
(* rows of the region's table with height >= 0.01 * modal_height, height <=    *)
(* modal_height and size > modal_size, in their original order: every subset   *)
(* row is such a table row, every such table row is in the subset, and the     *)
(* row labels increase along the subset.                                       *)
C1_SelectionExact ==
    \A i \in 1..Len(sample_subset) :
        LET d == sample_df[i]
            sub == sample_subset[i]
        IN  /\ \A j \in 1..Len(sub) :
                   LET l == sub[j].idx + 1
                   IN  /\ l \in 1..Len(d.table)
                       /\ sub[j].Size = d.table[l].Size
                       /\ sub[j].Height = d.table[l].Height
                       /\ Qualifies(d, l)
            /\ \A l \in 1..Len(d.table) :
                   Qualifies(d, l) => \E j \in 1..Len(sub) : sub[j].idx = l - 1
            /\ \A j \in 1..(Len(sub) - 1) : sub[j].idx < sub[j + 1].idx

\* a subset was taken of a table holding a peak at the modal height, a peak
\* at one hundredth of it, and a peak at the modal size: the first two are
\* kept, the third is dropped
C1_Witness ==
    \E i \in 1..Len(sample_subset) :
        LET d == sample_df[i]
            kept == {sample_subset[i][j].idx + 1 : j \in 1..Len(sample_subset[i])}
        IN  /\ d.modal_height > 0
            /\ \E l \in kept : d.table[l].Height = d.modal_height
            /\ \E l \in kept : 100 * d.table[l].Height = d.modal_height
            /\ \E l \in (1..Len(d.table)) \ kept :
                   /\ d.table[l].Size = d.modal_size
                   /\ d.table[l].Height = d.modal_height

(* C3: for every peak p of a region's subset, change_from_main(p) =            *)
(* current_index - max_index + 1, where max_index is the original-table row    *)
(* position of the first subset peak of maximum height and current_index the   *)
(* original-table row position of the first subset peak as high as p; so       *)
(* peaks of equal height get equal weights.                                    *)
C3_ChangeFromMain ==
    \A i \in 1..Len(change_from_main) :
        LET d == sample_df[i]
            P == {l \in 1..Len(d.table) : Qualifies(d, l)}
            sub == sample_subset[i]
        IN  /\ Len(change_from_main[i]) = Len(sub)
            /\ \A j \in 1..Len(sub) :
                   LET h == sub[j].Height
                       max_index == Least({l \in P :
                           \A m \in P : d.table[m].Height <= d.table[l].Height}) - 1
                       current_index == Least({l \in P : d.table[l].Height = h}) - 1
                   IN  change_from_main[i][j] = current_index - max_index + 1
            /\ \A j, k \in 1..Len(sub) :
                   sub[j].Height = sub[k].Height
                       => change_from_main[i][j] = change_from_main[i][k]

\* the weights were set for a subset in which a row dropped by the selector
\* lies between two kept peaks and counts in the distance (the weight differs
\* from the one positions within the subset would give), and for a subset
\* with two peaks of one height
C3_Witness ==
    /\ \E i \in 1..Len(change_from_main) :
           LET sub == sample_subset[i]
           IN  \E j, m \in 1..Len(sub) :
                   /\ \A k \in 1..Len(sub) : sub[k].Height <= sub[m].Height
                   /\ sub[j].Height < sub[m].Height
                   /\ change_from_main[i][j] # j - m + 1
    /\ \E i \in 1..Len(change_from_main) :
           LET sub == sample_subset[i]
           IN  \E j, k \in 1..Len(sub) :
                   /\ j < k
                   /\ sub[j].Height = sub[k].Height
                   /\ change_from_main[i][k] = change_from_main[i][j]

RECURSIVE QualifyingHeights(_, _)
\* the heights of the qualifying rows among the first n rows of d's table, summed
QualifyingHeights(d, n) ==
    IF n = 0 THEN 0
    ELSE QualifyingHeights(d, n - 1) + (IF Qualifies(d, n) THEN d.table[n].Height ELSE 0)

(* C7: for every region, the total signal mass (height_sum) that normalizes    *)
(* the heights is the region's modal height plus the sum of the heights of     *)
(* the peaks of its subset: the modal height is added once, whether or not a   *)
(* peak of that height is in the subset, and the total is the modal height     *)
(* when the subset is empty.                                                   *)
C7_TotalSignalMass ==
    \A i \in 1..Len(height_sum) :
        LET d == sample_df[i]
        IN  /\ height_sum[i] = d.modal_height + QualifyingHeights(d, Len(d.table))
            /\ sample_subset[i] = <<>> => height_sum[i] = d.modal_height

\* the total was taken for a subset that holds a peak as high as the modal
\* peak, and for an empty subset
C7_Witness ==
    /\ \E i \in 1..Len(height_sum) :
           /\ sample_df[i].modal_height > 0
           /\ \E j \in 1..Len(sample_subset[i]) :
                  sample_subset[i][j].Height = sample_df[i].modal_height
           /\ height_sum[i] >= 2 * sample_df[i].modal_height
    /\ \E i \in 1..Len(height_sum) : sample_subset[i] = <<>>

\* the positions of the sample key that hold the scenario's region
ScenarioAt == {i \in 1..N : sample_df[i] = ScenarioRegion}

(* C4, as amended: for the region with modal_height = 1000, modal_size = 180   *)
(* and peaks (185, 50), (190, 20), (195, 5), the pipeline keeps the first two  *)
(* peaks only (height 5 is below the threshold 10), total_signal_mass = 1070,  *)
(* normalized heights [0.047, 0.019], change_from_main = [1, 2],               *)
(* normalized_peak = [0.047, 0.038] and instability_index = 0.085.             *)
C4_ScenarioAmended ==
    \A i \in ScenarioAt :
        /\ i <= Len(sample_subset) =>
               /\ Len(sample_subset[i]) = 2
               /\ sample_subset[i][1] = [idx |-> 0, Size |-> 185, Height |-> 50]
               /\ sample_subset[i][2] = [idx |-> 1, Size |-> 190, Height |-> 20]
        /\ i <= Len(height_sum) =>
               /\ height_sum[i] = 1070
               /\ normalized_Height[i] = <<Num(47), Num(19)>>
        /\ i <= Len(change_from_main) => change_from_main[i] = <<1, 2>>
        /\ i <= Len(normalized_Peak) => normalized_Peak[i] = <<Num(47), Num(38)>>
        /\ i <= Len(instability_index) => instability_index[i] = Num(85)

\* the scenario's region went through the whole pipeline and has its index
C4_Witness ==
    \E i \in ScenarioAt : pc = "returned" /\ i <= Len(instability_index)

(* C4, as claimed: the pipeline keeps all three peaks, total_signal_mass =     *)
(* 1075, normalized heights [0.047, 0.019, 0.005], change_from_main =          *)
(* [1, 0, -1], normalized_peak = [0.047, 0.0, -0.005], index 0.042.            *)
C4_ScenarioAsClaimed ==
    \A i \in ScenarioAt :
        /\ i <= Len(sample_subset) => Len(sample_subset[i]) = 3
        /\ i <= Len(height_sum) =>
               /\ height_sum[i] = 1075
               /\ normalized_Height[i] = <<Num(47), Num(19), Num(5)>>
        /\ i <= Len(change_from_main) => change_from_main[i] = <<1, 0, -1>>
        /\ i <= Len(normalized_Peak) =>
               normalized_Peak[i] = <<Num(47), Num(0), Num(-5)>>
        /\ i <= Len(instability_index) => instability_index[i] = Num(42)

\* the label of the first subset row of maximum height
FirstMaxLabel(sub) ==
    Least({sub[m].idx : m \in {m \in 1..Len(sub) :
        \A k \in 1..Len(sub) : sub[k].Height <= sub[m].Height}})

\* the label of the first subset row as high as row j
FirstMatchLabel(sub, j) ==
    Least({sub[m].idx : m \in {m \in 1..Len(sub) : sub[m].Height = sub[j].Height}})

(* C10, as amended: in every non-empty subset each peak of maximum height has  *)
(* change_from_main = 1; a peak has change_from_main < 0 exactly when its      *)
(* first-matching row index is at least 2 less than the maximum-height row     *)
(* index; its normalized_peak is then normalized_height * change_from_main,    *)
(* which is negative unless its normalized_height rounded to 0.000, when it    *)
(* is zero; the instability index of a region can be negative.                 *)
C10_SignsAmended ==
    \A i \in 1..Len(normalized_Peak) :
        LET sub == sample_subset[i]
        IN  \A j \in 1..Len(sub) :
                LET c == change_from_main[i][j]
                    nh == normalized_Height[i][j]
                    np == normalized_Peak[i][j]
                IN  /\ (\A k \in 1..Len(sub) : sub[k].Height <= sub[j].Height) => c = 1
                    /\ c < 0 <=> FirstMatchLabel(sub, j) <= FirstMaxLabel(sub) - 2
                    /\ c < 0 => /\ ~nh.nan /\ ~np.nan
                                /\ np.th = nh.th * c
                                /\ np.th <= 0
                                /\ np.th = 0 <=> nh.th = 0

\* a region was given a negative instability index
C10_Witness ==
    \E i \in 1..Len(instability_index) :
        /\ pc = "returned"
        /\ instability_index[i].th < 0
        /\ \E j \in 1..Len(sample_subset[i]) : change_from_main[i][j] < 0

(* C10, as claimed: each peak of maximum height has change_from_main = 1, and  *)
(* a peak has change_from_main < 0, and so a negative normalized_peak,         *)
(* exactly when its first-matching row index is at least 2 less than the       *)
(* maximum-height row index.                                                   *)
C10_SignsAsClaimed ==
    \A i \in 1..Len(normalized_Peak) :
        LET sub == sample_subset[i]
        IN  \A j \in 1..Len(sub) :
                LET c == change_from_main[i][j]
                    np == normalized_Peak[i][j]
                IN  /\ (\A k \in 1..Len(sub) : sub[k].Height <= sub[j].Height) => c = 1
                    /\ c < 0 <=> FirstMatchLabel(sub, j) <= FirstMaxLabel(sub) - 2
                    /\ c < 0 => (~np.nan /\ np.th < 0)

(* C2: for any region whose expansion-peak subset is empty,                    *)
(* calc_instability_index completes without failing and returns                *)
(* instability_index = 0 for that region, with no peaks annotated.             *)
C2_EmptySubsetIndexZero ==
    (Terminal /\ Len(sample_subset) = N) =>
        \A i \in 1..N :
            sample_subset[i] = <<>> =>
                /\ pc = "returned"
                /\ instability_index[i] = Num(0)
                /\ normalized_Peak[i] = <<>>

(* C5: if the total signal mass of a region is zero, calc_instability_index    *)
(* fails for that region with DegenerateInputError: it neither returns an      *)
(* index for it nor leaves a NaN normalized_height.                            *)
C5_DegenerateInputError ==
    \A i \in 1..Len(height_sum) :
        height_sum[i] = 0 =>
            /\ \A j \in 1..Len(normalized_Height[i]) : ~normalized_Height[i][j].nan
            /\ Terminal => (pc = "raised" /\ error = "DegenerateInputError")

\* a region that fails nowhere by itself: readable, with its columns, a
\* positive modal height and at least one expansion peak
Healthy(d) ==
    /\ d.path = "ok"
    /\ d.modal_height > 0
    /\ \E l \in 1..Len(d.table) : Qualifies(d, l)

(* C6: errors are region-scoped: a failure in one region (unreadable path,     *)
(* missing column, degenerate input) does not keep the index of any other      *)
(* region of the sample set from being computed and returned.                  *)
C6_RegionScopedErrors ==
    Terminal =>
        \A i \in 1..N :
            Healthy(sample_df[i]) =>
                /\ pc = "returned"
                /\ i <= Len(instability_index)

\* the index of one region computed from its descriptor alone
RegionIndex(d) ==
    LET sub == SelectRows(ReadCsv(d.table), d.modal_height, d.modal_size)
        hs == HeightSum(sub, d.modal_height)
        np == [j \in 1..Len(sub) |->
                  NormalizedPeak(NormalizedHeight(sub[j].Height, hs),
                      ChangeFromMain(CurrentIndex(sub, sub[j].Height),
                                     MaxHeightIndex(sub)))]
    IN  Num(SumSkipNaN(np))

(* C8: for a sample set of n descriptors with valid inputs (readable tables    *)
(* with their columns, positive modal heights) the pipeline returns exactly n  *)
(* peak sequences, n modal heights and n instability indices, the i-th index   *)
(* computed from the i-th descriptor alone.                                    *)
C8_IndexAligned ==
    (Terminal /\ \A i \in 1..N :
                     sample_df[i].path = "ok" /\ sample_df[i].modal_height > 0) =>
        /\ pc = "returned"
        /\ Len(sample_subset) = N
        /\ Len(modal_height) = N
        /\ Len(instability_index) = N
        /\ \A i \in 1..N : instability_index[i] = RegionIndex(sample_df[i])

(* C9: rounding to 3 decimals is applied at three points: normalized_height =  *)
(* round(height / total_signal_mass, 3) for every peak, normalized_peak =      *)
(* round(normalized_height * change_from_main, 3) from the rounded             *)
(* normalized_height, and instability_index = round(sum of the rounded         *)
(* normalized_peak, 3); so each of them is a whole number of thousandths.      *)
C9_RoundingPoints ==
    /\ \A i \in 1..Len(normalized_Height) :
           \A j \in 1..Len(sample_subset[i]) :
               /\ ~normalized_Height[i][j].nan
               /\ height_sum[i] # 0
               /\ normalized_Height[i][j].th =
                      RoundHalfEven(1000 * sample_subset[i][j].Height, height_sum[i])
    /\ \A i \in 1..Len(normalized_Peak) :
           \A j \in 1..Len(sample_subset[i]) :
               /\ ~normalized_Peak[i][j].nan
               /\ normalized_Peak[i][j].th =
                      normalized_Height[i][j].th * change_from_main[i][j]
    /\ \A i \in 1..Len(instability_index) :
           /\ ~instability_index[i].nan
           /\ instability_index[i].th = SumSkipNaN(normalized_Peak[i])

\* what remains of C9 where the total signal mass is not zero: the three
\* roundings are where the claim puts them, and the index is the sum of the
\* rounded terms
RoundingPointsWhenMassNonzero ==
    \A i \in 1..Len(normalized_Height) :
        height_sum[i] # 0 =>
            /\ \A j \in 1..Len(sample_subset[i]) :
                   /\ ~normalized_Height[i][j].nan
                   /\ normalized_Height[i][j].th =
                          RoundHalfEven(1000 * sample_subset[i][j].Height, height_sum[i])
                   /\ i <= Len(normalized_Peak) =>
                          /\ ~normalized_Peak[i][j].nan
                          /\ normalized_Peak[i][j].th =
                                 normalized_Height[i][j].th * change_from_main[i][j]
            /\ i <= Len(instability_index) =>
                   instability_index[i] = Num(SumSkipNaN(normalized_Peak[i]))

====
